---- MODULE Spec2Model ----
(***************************************************************************)
(* The estuary shuttle (cmd/estuary-shuttle/main.go) as a state machine:   *)
(* the Pin / Object / ObjRef tables and the ingestion that fills them, the *)
(* pin queue and its status callback, Unpin, the channel tracker, and the  *)
(* RPC session with its supervisor, its outbound channel and the Commands   *)
(* it receives.                                                            *)
(***************************************************************************)
EXTENDS Naturals, Sequences, FiniteSets, TLC

\* ------------------------------------------------------------------ bounds
MaxPins == 1
MaxObjs == 4
MaxEvents == 3
MaxWire == 2
MaxReqs == 1
MaxCmds == 2

\* d.PinMgr.Run(100): the size of the worker pool
PinWorkers == 100

\* ------------------------------------------------------------------- state
VARIABLES
    mainpc,            \* main(): "refresh" (line 224), "serving" (lines 228-294);
                       \* "crashed" once the process has died of a panic
    refreshErr,        \* refreshPinQueue returned an error (logged at line 225)
    pins,              \* the Pin table: PinIds -> row
    objects,           \* the Object table: a sequence of cids, the row ID is the index
    refs,              \* the ObjRef table: a set of <<pin ID, object ID>>
    pinQueue,          \* the pin manager's queue of PinningOperations
    task,              \* PinIds -> the ingestion running for that Pin, and its position
    uploads,           \* ReqIds -> the POST /content/add request served, and its position
    trackingChannels,  \* d.trackingChannels: Chans -> chanTrack
    events,            \* Chans -> the statuses of the events seen since tracking started
    emitted,           \* Chans -> the statuses for which a TransferStatus was emitted
    ignored,           \* Chans -> the number of events the callback returned from at
                       \* line 234, the channel having no entry in the map
    sup,               \* RunRpcConnection's position
    rpc,               \* runRpc's position
    reader,            \* the read goroutine of the session
    conn,              \* the websocket connection
    wire,              \* the frames written successfully on the current connection
    inhand,            \* msg of the write loop, taken from d.outgoing
    outgoing,          \* the messages of the goroutines blocked in d.outgoing <- msg
    dropped,           \* the last message whose Send failed on this session (line 392)
    cmdvars,           \* the cmd variables of the read loop (line 371), in the order
                       \* of their allocation, each with the Command it holds
    handlers,          \* the goroutines started at line 377, in the order of their start
    reporter           \* the update reporter goroutine's position

vars == <<mainpc, refreshErr, pins, objects, refs, pinQueue, task, uploads,
          trackingChannels, events, emitted, ignored,
          sup, rpc, reader, conn, wire, inhand, outgoing, dropped, reporter,
          cmdvars, handlers>>

dbVars == <<pins, objects, refs>>
pinVars == <<pins, objects, refs, pinQueue, task, uploads>>
trackVars == <<trackingChannels, events, emitted, ignored>>
cmdVars == <<cmdvars, handlers>>
rpcVars == <<sup, rpc, reader, conn, wire, inhand, dropped, cmdVars>>

\* ---------------------------------------------------------------- the DAGs
PinIds == 1..MaxPins
Roots == {"r1", "r2"}

Range(sq) == {sq[i] : i \in 1..Len(sq)}

\* node.Links(): r1 links one raw leaf; r2 links two raw leaves, one of them
\* twice; the leaf s is shared by both graphs
Links(c) ==
    IF c = "r1" THEN <<"s">>
    ELSE IF c = "r2" THEN <<"s", "t", "s">>
    ELSE <<>>

\* len(node.RawData())
NodeSize(c) == IF c = "s" THEN 2 ELSE IF c = "t" THEN 4 ELSE 1

\* ------------------------------------------------------------------ tables
\* the content ID the coordinator assigns (createContent): never zero, one per upload
ContentOf(p) == 100 + p

PinOfContent(c) == c - 100

NoPin == [row |-> "none", content |-> 0, root |-> "", pinning |-> FALSE,
          active |-> FALSE, failed |-> FALSE, size |-> 0]

\* pin := &Pin{Content: contid, Cid: nd.Cid(), Active: false, Pinning: true}
NewPin(contid, root) ==
    [row |-> "live", content |-> contid, root |-> root, pinning |-> TRUE,
     active |-> FALSE, failed |-> FALSE, size |-> 0]

Live(p) == pins[p].row = "live"

\* the running ingestion of a Pin: kind "add" (handleAdd) or "pin" (a queue worker)
\* of the walk: cids are the objects appended so far, total is totalSize, visited
\* is cset, pending are the visited cids whose node is still to be fetched, fetching
\* are the calls of the walk function that have read objects and totalSize and have
\* not yet written them
NoTask == [kind |-> "none", pc |-> "none", cont |-> 0, root |-> "", dbpin |-> 0,
           cids |-> <<>>, objs |-> <<>>, total |-> 0,
           visited |-> {}, pending |-> {}, fetching |-> {}]

\* addDatabaseTrackingToContent has returned an error: its locals are gone
Failed(t) == [NoTask EXCEPT !.kind = t.kind, !.pc = "err", !.cont = t.cont]

\* addDatabaseTrackingToContent(ctx, contid, dserv, bs, root) entered
StartTask(kind, cont, root) == [NoTask EXCEPT !.kind = kind, !.pc = "walk", !.cont = cont, !.root = root]

\* ----------------------------------------------------------------- uploads
ReqIds == 1..MaxReqs

\* util.PermLevelUser, the level the /content group asks for
PermLevelUser == 2

\* what a request carries: no Authorization header, a token the viewer endpoint
\* rejects, or a token for which checkTokenAuth builds a *User (lines 471-477)
Cred(token, perms, disabled) ==
    [Token |-> token, Perms |-> perms, StorageDisabled |-> disabled]

NoCred == Cred("none", 0, FALSE)

Creds ==
    {NoCred, Cred("rejected", 0, FALSE)}
    \cup {Cred("accepted", perms, disabled) :
              perms \in {PermLevelUser - 1, PermLevelUser}, disabled \in BOOLEAN}

\* a POST /content/add request: its position, what it carried, the response, the
\* staging blockstore of AllocNew, the deferred CleanUp (lines 575-581), the number
\* of CleanUp goroutines started for the blockstore, whether createContent made a
\* content at the coordinator, the Pin row it created
NoUpload == [pc |-> "idle", cred |-> NoCred, resp |-> "none", bs |-> "none",
             deferred |-> FALSE, cleanups |-> 0, created |-> FALSE, pin |-> 0]

\* a return that forgets the deferred calls of the handler
ReturnNoDefer(u, resp) == [u EXCEPT !.pc = "done", !.resp = resp]

\* return from the handler: the response is decided and the deferred function runs,
\* which starts the goroutine calling StagingMgr.CleanUp(bsid)
Return(u, resp) ==
    [u EXCEPT !.pc = "done", !.resp = resp, !.deferred = FALSE,
              !.cleanups = IF u.deferred THEN @ + 1 ELSE @]

\* the check of the level left out
AuthOutcomeAnyLevel(cred, level) ==
    IF cred.Token = "none" THEN "noauth"
    ELSE IF cred.Token = "rejected" THEN "autherr"
    ELSE "next"

\* AuthRequired(level) (lines 480-506): ExtractAuth, checkTokenAuth, u.Perms >= level
AuthOutcome(cred, level) ==
    IF cred.Token = "none" THEN "noauth"
    ELSE IF cred.Token = "rejected" THEN "autherr"
    ELSE IF cred.Perms >= level THEN "next"
    ELSE "401"

\* ---------------------------------------------------------------- messages
\* a frame: its Op, the channel (TransferStatus), the database ID it is about, the
\* place of a TransferStatus among those emitted for its channel, the status, the size
Msg(op, chan, key, seq, arg, size) ==
    [op |-> op, chan |-> chan, key |-> key, seq |-> seq, arg |-> arg, size |-> size]

NoMsg == Msg("none", "", 0, 0, "", 0)

\* the drpc.Hello of getHelloMessage (lines 399-415)
HelloFrame == Msg("Hello", "", 0, 0, "", 0)

\* d.sendPinCompleteMessage(ctx, dbpin.Content, totalSize, objects)
PinCompleteMsg(t) == Msg("PinComplete", "", t.cont, 0, "", t.total)

\* drpc.Message{Op: "UpdatePinStatus", UpdatePinStatus{DBID: cont, Status: status}}
UpdatePinStatusMsg(cont, status) == Msg("UpdatePinStatus", "", cont, 0, status, 0)

\* ------------------------------------------------------- the Pin table's SQL
\* Where("content = ?", contid)
RowsWithContent(ps, cont) == {p \in PinIds : ps[p].row = "live" /\ ps[p].content = cont}

Min(S) == CHOOSE x \in S : \A y \in S : x <= y

\* the update with "pinning": false left out
MarkActiveKeepsPinning(ps, cont, total) ==
    [p \in PinIds |->
        IF p \in RowsWithContent(ps, cont)
        THEN [ps[p] EXCEPT !.active = TRUE, !.size = total]
        ELSE ps[p]]

\* UpdateColumns{"active": true, "size": totalSize, "pinning": false}
MarkActive(ps, cont, total) ==
    [p \in PinIds |->
        IF p \in RowsWithContent(ps, cont)
        THEN [ps[p] EXCEPT !.active = TRUE, !.size = total, !.pinning = FALSE]
        ELSE ps[p]]

\* UpdateColumns{"pinning": false, "active": false, "failed": true}
MarkFailed(ps, cont) ==
    [p \in PinIds |->
        IF p \in RowsWithContent(ps, cont)
        THEN [ps[p] EXCEPT !.pinning = FALSE, !.active = FALSE, !.failed = TRUE]
        ELSE ps[p]]

\* the query with "pinning = true" left out
ToPinNotActive(ps) == {p \in PinIds : ps[p].row = "live" /\ ~ps[p].active}

\* Find(&toPin, "active = false and pinning = true")
ToPin(ps) == {p \in PinIds : ps[p].row = "live" /\ ~ps[p].active /\ ps[p].pinning}

\* addPinToQueue(p, peers, replace): the PinningOperation built from a Pin row
PinningOperation(row, peers, replace) ==
    [ContId |-> row.content, Obj |-> row.root, Peers |-> peers,
     Status |-> "queued", Replace |-> replace]

NilPeers == <<>>

RECURSIVE OpsOf(_, _)
\* for _, c := range toPin { s.addPinToQueue(c, nil, 0) }, in the order of the row IDs
OpsOf(ps, S) ==
    IF S = {} THEN <<>>
    ELSE <<PinningOperation(ps[Min(S)], NilPeers, 0)>> \o OpsOf(ps, S \ {Min(S)})

\* refreshPinQueue: what it adds to the queue
refreshPinQueue(ps) == OpsOf(ps, ToPin(ps))

\* -------------------------------------------------------------------- Init
NoTrack == [tracked |-> FALSE, dbid |-> 0, last |-> "nil"]

Chans == {"ch1"}

\* the state of a process that has just built its Shuttle (lines 202-222)
FreshProcess ==
    /\ pinQueue = <<>>
    /\ task = [p \in PinIds |-> NoTask]
    /\ uploads = [r \in ReqIds |-> NoUpload]
    /\ trackingChannels = [c \in Chans |-> NoTrack]
    /\ events = [c \in Chans |-> <<>>]
    /\ emitted = [c \in Chans |-> <<>>]
    /\ ignored = [c \in Chans |-> 0]
    /\ sup = "init"
    /\ rpc = "none"
    /\ reader = "none"
    /\ conn = "none"
    /\ wire = <<>>
    /\ inhand = NoMsg
    /\ outgoing = {}
    /\ dropped = NoMsg
    /\ reporter = "init"
    /\ cmdvars = <<>>
    /\ handlers = <<>>

Init ==
    /\ mainpc = "refresh"
    /\ refreshErr = FALSE
    /\ pins = [p \in PinIds |-> NoPin]
    /\ objects = <<>>
    /\ refs = {}
    /\ FreshProcess

\* every goroutine of the process is gone; the tables stay
ProcessGone ==
    /\ pinQueue' = <<>>
    /\ task' = [p \in PinIds |-> NoTask]
    /\ uploads' = [r \in ReqIds |-> NoUpload]
    /\ trackingChannels' = [c \in Chans |-> NoTrack]
    /\ events' = [c \in Chans |-> <<>>]
    /\ emitted' = [c \in Chans |-> <<>>]
    /\ ignored' = [c \in Chans |-> 0]
    /\ sup' = "init"
    /\ rpc' = "none"
    /\ reader' = "none"
    /\ conn' = "none"
    /\ wire' = <<>>
    /\ inhand' = NoMsg
    /\ outgoing' = {}
    /\ dropped' = NoMsg
    /\ reporter' = "init"
    /\ cmdvars' = <<>>
    /\ handlers' = <<>>

\* the process is stopped (or has crashed) and is started again: main() up to line 222
Restart ==
    /\ mainpc' = "refresh"
    /\ refreshErr' = FALSE
    /\ ProcessGone
    /\ UNCHANGED dbVars

\* main(), lines 224-294: refreshPinQueue, the transfer subscription, the RPC
\* supervisor and the update reporter are started, then the API is served
Startup ==
    /\ mainpc = "refresh"
    /\ mainpc' = "serving"
    /\ \E findOk \in BOOLEAN :
          /\ refreshErr' = ~findOk
          /\ pinQueue' = IF findOk THEN pinQueue \o refreshPinQueue(pins) ELSE pinQueue
    /\ sup' = "dial"
    /\ reporter' = "gather"
    /\ UNCHANGED <<dbVars, task, uploads, trackVars, cmdVars, rpc, reader, conn, wire, inhand,
                   outgoing, dropped>>

\* ------------------------------------------------------------- handleAdd
NextPinId == Min({p \in PinIds : pins[p].row = "none"})

\* the middleware of the /content group (line 531) on a request that arrives
AuthRequired(r, cred) ==
    /\ mainpc = "serving"
    /\ uploads[r].pc \in {"idle", "done"}
    /\ LET u == [NoUpload EXCEPT !.cred = cred]
           out == AuthOutcome(cred, PermLevelUser) IN
          uploads' = [uploads EXCEPT ![r] =
                        IF out = "next" THEN [u EXCEPT !.pc = "handler"]
                        ELSE Return(u, out)]
    /\ UNCHANGED <<mainpc, refreshErr, dbVars, pinQueue, task, trackVars, rpcVars,
                   outgoing, reporter>>

\* the steps of handleAdd before the ingestion, each of which may return an error
Stages == <<"form", "alloc", "import", "create", "insert">>

StageNo(st) == CHOOSE i \in 1..Len(Stages) : Stages[i] = st

\* handleAdd up to s.DB.Create(pin) (lines 539-607): the storage-disabled check, the
\* form, StagingMgr.AllocNew and the deferred CleanUp, importFile, createContent and
\* the insert of the Pin row; after the insert the ingestion is entered
HandleAdd(r, root) ==
    /\ uploads[r].pc = "handler"
    /\ LET u == uploads[r] IN
          IF u.cred.StorageDisabled
          THEN /\ uploads' = [uploads EXCEPT ![r] = Return(u, "400")]
               /\ UNCHANGED <<pins, task>>
          ELSE \/ \E st \in {Stages[i] : i \in 1..Len(Stages)} :
                     LET allocated == StageNo(st) > StageNo("alloc")
                         ua == IF allocated
                               THEN [u EXCEPT !.bs = "staging", !.deferred = TRUE,
                                              !.created = StageNo(st) > StageNo("create")]
                               ELSE u IN
                     /\ uploads' = [uploads EXCEPT ![r] = Return(ua, "err")]
                     /\ UNCHANGED <<pins, task>>
               \/ /\ \E p \in PinIds : pins[p].row = "none"
                  /\ LET p == NextPinId IN
                        /\ pins' = [pins EXCEPT ![p] = NewPin(ContentOf(p), root)]
                        /\ task' = [task EXCEPT ![p] = StartTask("add", ContentOf(p), root)]
                        /\ uploads' = [uploads EXCEPT ![r] =
                                         [u EXCEPT !.pc = "ingest", !.bs = "staging",
                                                   !.deferred = TRUE, !.created = TRUE,
                                                   !.pin = p]]
    /\ UNCHANGED <<mainpc, refreshErr, objects, refs, pinQueue, trackVars,
                   rpcVars, outgoing, reporter>>

\* handleAdd after addDatabaseTrackingToContent returned (lines 609-624): its error
\* is returned; otherwise dumpBlockstoreTo moves the staged blocks and its error is
\* returned, or the response is 200
HandleAddReturn(r) ==
    /\ uploads[r].pc = "ingest"
    /\ LET p == uploads[r].pin IN
          /\ task[p].kind = "add"
          /\ task[p].pc \in {"ok", "err"}
          /\ \E dumpOk \in BOOLEAN :
                uploads' = [uploads EXCEPT ![r] =
                              Return(uploads[r],
                                     IF task[p].pc = "ok" /\ dumpOk THEN "200" ELSE "err")]
          /\ task' = [task EXCEPT ![p] = NoTask]
    /\ UNCHANGED <<mainpc, refreshErr, dbVars, pinQueue, trackVars, rpcVars,
                   outgoing, reporter>>

\* ------------------------------------------- addDatabaseTrackingToContent
\* the walk function has appended the object of c to the first n objects and added
\* its size to tot (lines 749-754), and returns node.Links() (lines 756-760): the
\* links that cset.Visit has not seen are fetched next; the walk ends when no fetch
\* is left
Appended(t, c, n, tot) ==
    LET new == Range(Links(c)) \ t.visited
        left == t.pending \cup new IN
    [t EXCEPT !.cids = SubSeq(t.cids, 1, n) \o <<c>>,
              !.total = tot + NodeSize(c),
              !.visited = IF left = {} /\ t.fetching = {} THEN {} ELSE @ \cup new,
              !.pending = left,
              !.pc = IF left = {} /\ t.fetching = {} THEN "objects" ELSE "walking"]

\* DB.First(&dbpin, "content = ?", contid) and the start of merkledag.Walk (lines
\* 734-761): the root is visited and its node fetched
IngestWalk(p) ==
    /\ task[p].pc = "walk"
    /\ \E ok \in BOOLEAN :
          LET rows == RowsWithContent(pins, task[p].cont)
              t == [task[p] EXCEPT !.dbpin = Min(rows), !.visited = {task[p].root}] IN
          task' = [task EXCEPT ![p] =
                     IF ok /\ rows # {}
                     THEN Appended(t, t.root, 0, 0)
                     ELSE Failed(task[p])]
    /\ UNCHANGED <<mainpc, refreshErr, dbVars, pinQueue, uploads, trackVars, rpcVars,
                   outgoing, reporter>>

\* merkledag.Concurrent(): a goroutine of the walk calls the walk function for a
\* visited cid; dserv.Get fails and ends the walk (lines 744-747, 762-764), or the
\* function goes on to append, reading objects and totalSize without a lock
WalkGet(p, c) ==
    /\ task[p].pc = "walking"
    /\ c \in task[p].pending
    /\ \E ok \in BOOLEAN :
          task' = [task EXCEPT ![p] =
                     IF ok
                     THEN [task[p] EXCEPT
                             !.pending = @ \ {c},
                             !.fetching = @ \cup {[c |-> c, n |-> Len(task[p].cids),
                                                    t |-> task[p].total]}]
                     ELSE Failed(task[p])]
    /\ UNCHANGED <<mainpc, refreshErr, dbVars, pinQueue, uploads, trackVars, rpcVars,
                   outgoing, reporter>>

\* objects = append(objects, ...) and totalSize += ... (lines 749-754) of a call
\* running beside other calls: each of the two writes is made from the value the
\* call has read, which is the current one or the one from before the writes of
\* the other calls
WalkAppend(p, f) ==
    /\ task[p].pc = "walking"
    /\ f \in task[p].fetching
    /\ \E n \in {f.n, Len(task[p].cids)}, tot \in {f.t, task[p].total} :
          task' = [task EXCEPT ![p] =
                     Appended([task[p] EXCEPT !.fetching = @ \ {f}], f.c, n, tot)]
    /\ UNCHANGED <<mainpc, refreshErr, dbVars, pinQueue, uploads, trackVars, rpcVars,
                   outgoing, reporter>>

\* the IDs the database gives to n rows appended to a table of k rows
NewIds(k, n) == [i \in 1..n |-> k + i]

\* DB.CreateInBatches(objects, 300) (lines 771-773)
IngestCreateObjects(p) ==
    /\ task[p].pc = "objects"
    /\ \E ok \in BOOLEAN :
          IF ok /\ Len(objects) + Len(task[p].cids) <= MaxObjs
          THEN /\ objects' = objects \o task[p].cids
               /\ task' = [task EXCEPT ![p].pc = "update",
                                        ![p].objs = NewIds(Len(objects), Len(task[p].cids))]
          ELSE /\ task' = [task EXCEPT ![p] = Failed(task[p])]
               /\ UNCHANGED objects
    /\ UNCHANGED <<mainpc, refreshErr, pins, refs, pinQueue, uploads, trackVars,
                   rpcVars, outgoing, reporter>>

\* the Pin is marked active (lines 775-781)
IngestUpdatePin(p) ==
    /\ task[p].pc = "update"
    /\ \E ok \in BOOLEAN :
          IF ok
          THEN /\ pins' = MarkActive(pins, task[p].cont, task[p].total)
               /\ task' = [task EXCEPT ![p].pc = "refs"]
          ELSE /\ task' = [task EXCEPT ![p] = Failed(task[p])]
               /\ UNCHANGED pins
    /\ UNCHANGED <<mainpc, refreshErr, objects, refs, pinQueue, uploads, trackVars,
                   rpcVars, outgoing, reporter>>

\* refs[i] = {Pin: dbpin.ID, Object: objects[i].ID} (lines 783-787)
RefsOf(t) == {<<t.dbpin, t.objs[i]>> : i \in 1..Len(t.objs)}

\* DB.CreateInBatches(refs, 500) (lines 789-791); then sendPinCompleteMessage blocks
IngestCreateRefs(p) ==
    /\ task[p].pc = "refs"
    /\ \E ok \in BOOLEAN :
          IF ok
          THEN /\ refs' = refs \cup RefsOf(task[p])
               /\ task' = [task EXCEPT ![p].pc = "complete", ![p].cids = <<>>,
                                        ![p].objs = <<>>]
          ELSE /\ task' = [task EXCEPT ![p] = Failed(task[p])]
               /\ UNCHANGED refs
    /\ UNCHANGED <<mainpc, refreshErr, pins, objects, pinQueue, uploads, trackVars,
                   rpcVars, outgoing, reporter>>

\* ------------------------------------------------------ the pin manager
RemoveAt(q, i) == SubSeq(q, 1, i - 1) \o SubSeq(q, i + 1, Len(q))

Running == {p \in PinIds : task[p].kind = "pin"}

\* a worker of PinMgr.Run takes an operation and calls doPinning (lines 681-695)
WorkerTake(i) ==
    /\ i \in 1..Len(pinQueue)
    /\ Cardinality(Running) < PinWorkers
    /\ LET op == pinQueue[i]
           p == PinOfContent(op.ContId) IN
          /\ task[p].kind = "none"
          /\ task' = [task EXCEPT ![p] = StartTask("pin", op.ContId, op.Obj)]
    /\ pinQueue' = RemoveAt(pinQueue, i)
    /\ UNCHANGED <<mainpc, refreshErr, dbVars, uploads, trackVars, rpcVars, outgoing,
                   reporter>>

\* onPinStatusUpdate(cont, status) (lines 798-823): the update of a "failed"
\* status, which may itself fail and is then logged, and the goroutine that sends
\* UpdatePinStatus
onPinStatusUpdate(cont, status) ==
    /\ \E ok \in BOOLEAN :
          pins' = IF status = "failed" /\ ok THEN MarkFailed(pins, cont) ELSE pins
    /\ outgoing' = outgoing \cup {UpdatePinStatusMsg(cont, status)}

\* the status the pin manager reports for what doPinning returned
TerminalStatus(pc) == IF pc = "ok" THEN "pinned" ELSE "failed"

\* doPinning has returned (lines 705, 726) and the pin manager calls the status
\* callback once with the terminal status
PinDone(p) ==
    /\ task[p].kind = "pin"
    /\ task[p].pc \in {"ok", "err"}
    /\ onPinStatusUpdate(task[p].cont, TerminalStatus(task[p].pc))
    /\ task' = [task EXCEPT ![p] = NoTask]
    /\ UNCHANGED <<mainpc, refreshErr, objects, refs, pinQueue, uploads, trackVars,
                   rpcVars, reporter>>

\* ------------------------------------------------------------------ Unpin
\* the row of a deleted Pin
DeletedPin == [NoPin EXCEPT !.row = "deleted"]

\* Delete(Pin{}, pin.ID)
DeletePin(ps, id) == [ps EXCEPT ![id] = DeletedPin]

\* Where("pin = ?", pin.ID).Delete(ObjRef{})
DeleteRefs(rs, id) == {r \in rs : r[1] # id}

\* clearUnreferencedObjects (lines 956-961): addPinLk is taken, then panic("nyi");
\* no Object row is touched
clearUnreferencedObjects == "panic"

\* Unpin(contid) (lines 939-954): the row is looked up by its ID; the row and its
\* ObjRefs are deleted, each of which may fail and return the error; then
\* clearUnreferencedObjects panics, and the panic, which nothing in Unpin
\* recovers, ends the process
Unpin(id) ==
    /\ mainpc = "serving"
    /\ \/ UNCHANGED vars
       \/ /\ Live(id)
          /\ pins' = DeletePin(pins, id)
          /\ UNCHANGED <<mainpc, refreshErr, objects, refs, pinQueue, task, uploads,
                         trackVars, rpcVars, outgoing, reporter>>
       \/ /\ Live(id)
          /\ pins' = DeletePin(pins, id)
          /\ refs' = DeleteRefs(refs, id)
          /\ mainpc' = IF clearUnreferencedObjects = "panic" THEN "crashed" ELSE mainpc
          /\ ProcessGone
          /\ UNCHANGED <<refreshErr, objects>>

\* -------------------------------------------------------- channel tracker
Statuses == {"Requested", "Ongoing"}

NilState == [Status |-> "nil"]

\* filclient.ChannelStateConv(st): the ChannelState built from the event's state
ChannelStateConv(st) == [Status |-> st.Status]

\* drpc.TransferStatus{Chanid: chid, DealDBID: trk.dbid, State: cst}
TransferStatusMsg(chid, dbid, seq, cst) == Msg("TransferStatus", chid, dbid, seq, cst.Status, 0)

\* a transfer is started for a Pin and its channel is entered into the map
TrackChannel(c) ==
    /\ mainpc = "serving"
    /\ ~trackingChannels[c].tracked
    /\ \E dbid \in PinIds :
          trackingChannels' = [trackingChannels EXCEPT
                                 ![c] = [tracked |-> TRUE, dbid |-> dbid, last |-> NilState]]
    /\ UNCHANGED <<mainpc, refreshErr, pinVars, events, emitted, ignored, rpcVars,
                   outgoing, reporter>>

\* the comparison with the last status left out: every event is reported
StatusChangedAlways(last, st) == TRUE

\* trk.last == nil || trk.last.Status != st.Status()
StatusChanged(last, st) == last = NilState \/ last.Status # st.Status

\* an event of an unknown channel that makes the callback enter the channel
IgnoreButTrack(c) ==
    /\ trackingChannels' = [trackingChannels EXCEPT
                              ![c] = [tracked |-> TRUE, dbid |-> 0, last |-> NilState]]
    /\ UNCHANGED <<emitted, outgoing>>

\* trk, ok := d.trackingChannels[chid]; if !ok { return } (lines 232-235)
Ignore(c) == UNCHANGED <<trackingChannels, emitted, outgoing>>

\* the callback of SubscribeToDataTransferEvents (lines 228-248), under tcLk
TransferEvent(c, status) ==
    /\ mainpc = "serving"
    /\ Len(events[c]) + ignored[c] < MaxEvents
    /\ LET st == [ChannelID |-> c, Status |-> status]
           trk == trackingChannels[st.ChannelID] IN
          IF ~trk.tracked
          THEN /\ ignored' = [ignored EXCEPT ![c] = @ + 1]
               /\ Ignore(c)
               /\ UNCHANGED events
          ELSE /\ events' = [events EXCEPT ![c] = Append(@, status)]
               /\ UNCHANGED ignored
               /\ IF StatusChanged(trk.last, st)
                  THEN LET cst == ChannelStateConv(st) IN
                       /\ trackingChannels' = [trackingChannels EXCEPT ![c].last = cst]
                       /\ emitted' = [emitted EXCEPT ![c] = Append(@, cst.Status)]
                       /\ outgoing' = outgoing \cup
                             {TransferStatusMsg(c, trk.dbid, Len(emitted[c]) + 1, cst)}
                  ELSE UNCHANGED <<trackingChannels, emitted, outgoing>>
    /\ UNCHANGED <<mainpc, refreshErr, pinVars, rpcVars, reporter>>

\* -------------------------------------------------------- update reporter
\* drpc.Message{Op: drpc.OP_ShuttleUpdate, ShuttleUpdate: upd}
ShuttleUpdateMsg(upd) == Msg("ShuttleUpdate", "", 0, 0, upd, 0)

\* getUpdatePacket (lines 263-266, 277-280): its error is logged and the message
\* is built all the same, with a nil ShuttleUpdate
ReporterGather ==
    /\ reporter = "gather"
    /\ \E ok \in BOOLEAN : reporter' = IF ok THEN "send_upd" ELSE "send_nil"
    /\ UNCHANGED <<mainpc, refreshErr, pinVars, trackVars, rpcVars, outgoing>>

\* for range time.Tick(time.Minute)
ReporterTick ==
    /\ reporter = "tick"
    /\ reporter' = "gather"
    /\ UNCHANGED <<mainpc, refreshErr, pinVars, trackVars, rpcVars, outgoing>>

\* -------------------------------------------------------------- d.outgoing
\* the messages of the senders blocked on the unbuffered channel
Offered ==
    outgoing
    \cup {PinCompleteMsg(task[p]) : p \in {q \in PinIds : task[q].pc = "complete"}}
    \cup (IF reporter = "send_upd" THEN {ShuttleUpdateMsg("upd")} ELSE {})
    \cup (IF reporter = "send_nil" THEN {ShuttleUpdateMsg("nil")} ELSE {})

\* the sender of m is released by the receive
Unblock(m) ==
    /\ outgoing' = outgoing \ {m}
    /\ task' = [p \in PinIds |->
                  IF task[p].pc = "complete" /\ PinCompleteMsg(task[p]) = m
                  THEN [task[p] EXCEPT !.pc = "ok"] ELSE task[p]]
    /\ reporter' = IF m.op = "ShuttleUpdate" THEN "tick" ELSE reporter

\* ------------------------------------------------------------ RPC session
\* a dial failure that ends RunRpcConnection instead of sleeping and retrying
DialGivesUp ==
    /\ sup = "dial"
    /\ \/ /\ sup' = "returned"
          /\ UNCHANGED <<rpc, conn>>
       \/ /\ sup' = "run"
          /\ rpc' = "hello"
          /\ conn' = "open"
    /\ UNCHANGED <<mainpc, refreshErr, pinVars, trackVars, cmdVars, reader, wire, inhand,
                   outgoing, dropped, reporter>>

\* d.dialConn() in RunRpcConnection (lines 333-338)
Dial ==
    /\ sup = "dial"
    /\ \/ /\ sup' = "sleep10"
          /\ UNCHANGED <<rpc, conn>>
       \/ /\ sup' = "run"
          /\ rpc' = "hello"
          /\ conn' = "open"
    /\ UNCHANGED <<mainpc, refreshErr, pinVars, trackVars, cmdVars, reader, wire, inhand,
                   outgoing, dropped, reporter>>

\* time.Sleep(time.Second * 10) / time.Sleep(time.Second), then the loop goes on
SupSleep ==
    /\ sup \in {"sleep10", "sleep1"}
    /\ sup' = "dial"
    /\ UNCHANGED <<mainpc, refreshErr, pinVars, trackVars, cmdVars, rpc, reader, conn, wire,
                   inhand, outgoing, dropped, reporter>>

\* a failed Hello whose error is ignored: the session goes on without it
SendHelloIgnoresError ==
    /\ rpc = "hello"
    /\ \/ /\ rpc' = "loop"
          /\ reader' = "running"
          /\ UNCHANGED <<wire, conn>>
       \/ /\ wire' = Append(wire, HelloFrame)
          /\ reader' = "running"
          /\ rpc' = "loop"
          /\ UNCHANGED conn
    /\ UNCHANGED <<mainpc, refreshErr, pinVars, trackVars, cmdVars, sup, inhand, outgoing,
                   dropped, reporter>>

\* runRpc, lines 357-383: Hello is built and sent, then the read goroutine starts
SendHello ==
    /\ rpc = "hello"
    /\ \/ /\ rpc' = "err"
          /\ conn' = "closed"
          /\ UNCHANGED <<wire, reader>>
       \/ /\ wire' = Append(wire, HelloFrame)
          /\ reader' = "running"
          /\ rpc' = "loop"
          /\ UNCHANGED conn
    /\ UNCHANGED <<mainpc, refreshErr, pinVars, trackVars, cmdVars, sup, inhand, outgoing,
                   dropped, reporter>>

\* websocket.JSON.Receive fails: the read goroutine returns and closes readDone
ReadFail ==
    /\ reader = "running"
    /\ reader' = "exited"
    /\ UNCHANGED <<mainpc, refreshErr, pinVars, trackVars, cmdVars, sup, rpc, conn, wire,
                   inhand, outgoing, dropped, reporter>>

\* a read goroutine whose exit ends runRpc with a nil error
WriteLoopExitClean ==
    /\ rpc = "loop"
    /\ reader = "exited"
    /\ rpc' = "nil"
    /\ reader' = "none"
    /\ conn' = "closed"
    /\ UNCHANGED <<mainpc, refreshErr, pinVars, trackVars, cmdVars, sup, wire, inhand, outgoing,
                   dropped, reporter>>

\* case <-readDone: return fmt.Errorf(...) (lines 387-388), conn.Close() deferred
WriteLoopExit ==
    /\ rpc = "loop"
    /\ reader = "exited"
    /\ rpc' = "err"
    /\ reader' = "none"
    /\ conn' = "closed"
    /\ UNCHANGED <<mainpc, refreshErr, pinVars, trackVars, cmdVars, sup, wire, inhand, outgoing,
                   dropped, reporter>>

\* a receive that does not wait for the Send of the message before it
WriteLoopTakeEarly(m) ==
    /\ rpc \in {"loop", "send"}
    /\ m \in Offered
    /\ Len(wire) < MaxWire
    /\ inhand' = m
    /\ rpc' = "send"
    /\ Unblock(m)
    /\ UNCHANGED <<mainpc, refreshErr, dbVars, pinQueue, uploads, trackVars, cmdVars, sup,
                   reader, conn, wire, dropped>>

\* case msg := <-d.outgoing (line 389)
WriteLoopTake(m) ==
    /\ rpc = "loop"
    /\ m \in Offered
    /\ Len(wire) < MaxWire
    /\ inhand' = m
    /\ rpc' = "send"
    /\ Unblock(m)
    /\ UNCHANGED <<mainpc, refreshErr, dbVars, pinQueue, uploads, trackVars, cmdVars, sup,
                   reader, conn, wire, dropped>>

\* websocket.JSON.Send(conn, msg) under the 30 s deadline (lines 390-394): a
\* failure is logged and the loop goes on
WriteLoopSend ==
    /\ rpc = "send"
    /\ \E ok \in BOOLEAN :
          IF ok
          THEN wire' = Append(wire, inhand) /\ UNCHANGED dropped
          ELSE dropped' = inhand /\ UNCHANGED wire
    /\ inhand' = NoMsg
    /\ rpc' = "loop"
    /\ UNCHANGED <<mainpc, refreshErr, pinVars, trackVars, cmdVars, sup, reader, conn, outgoing,
                   reporter>>

\* runRpc has returned to RunRpcConnection (lines 340-347)
RunRpcReturn ==
    /\ sup = "run"
    /\ rpc \in {"err", "nil"}
    /\ sup' = IF rpc = "err" THEN "sleep10" ELSE "sleep1"
    /\ rpc' = "none"
    /\ conn' = "none"
    /\ wire' = <<>>
    /\ dropped' = NoMsg
    /\ UNCHANGED <<mainpc, refreshErr, pinVars, trackVars, cmdVars, reader, inhand, outgoing,
                   reporter>>

\* ------------------------------------------------------- inbound commands
\* the Commands that websocket.JSON.Receive can decode into cmd (line 372)
Commands == {"cmdA", "cmdB"}

\* one cmd variable for the whole read loop, as if declared before the for
SharedCmdVar(cv) == 1

\* var cmd drpc.Command (line 371), declared in the body of the for: every
\* iteration has a new variable
NewCmdVar(cv) == Len(cv) + 1

\* Receive(conn, &cmd) decodes c into the variable v
Store(cv, v, c) == IF v > Len(cv) THEN Append(cv, c) ELSE [cv EXCEPT ![v] = c]

\* a goroutine of line 377 that holds the pointer v; recv is the Command that the
\* iteration which started it had received
Handler(v, recv) == [cmd |-> v, recv |-> recv, pc |-> "running"]

\* one iteration of the read loop (lines 371-381): a Command is received and a
\* goroutine is started with the address of cmd; the loop is at Receive again
ReadCmd(c) ==
    /\ reader = "running"
    /\ Len(handlers) < MaxCmds
    /\ LET v == NewCmdVar(cmdvars) IN
          /\ cmdvars' = Store(cmdvars, v, c)
          /\ handlers' = Append(handlers, Handler(v, c))
    /\ UNCHANGED <<mainpc, refreshErr, pinVars, trackVars, sup, rpc, reader, conn, wire,
                   inhand, outgoing, dropped, reporter>>

\* d.handleRpcCmd(cmd) returns in the goroutine i (lines 378-380): an error is
\* logged, and the goroutine ends; a handler that never returns takes no such step
HandlerReturn(i, failed) ==
    /\ i \in 1..Len(handlers)
    /\ handlers[i].pc = "running"
    /\ handlers' = [handlers EXCEPT ![i].pc = IF failed THEN "err" ELSE "nil"]
    /\ UNCHANGED <<mainpc, refreshErr, pinVars, trackVars, sup, rpc, reader, conn, wire,
                   inhand, outgoing, dropped, reporter, cmdvars>>

\* ---------------------------------------------------------- specifications
Nodes == {"r1", "r2", "s", "t"}

IngestNext ==
    \/ \E p \in PinIds : IngestWalk(p)
    \/ \E p \in PinIds, c \in Nodes : WalkGet(p, c)
    \/ \E p \in PinIds : \E f \in task[p].fetching : WalkAppend(p, f)
    \/ \E p \in PinIds : IngestCreateObjects(p)
    \/ \E p \in PinIds : IngestUpdatePin(p)
    \/ \E p \in PinIds : IngestCreateRefs(p)

UploadNext ==
    \/ \E r \in ReqIds, cred \in Creds : AuthRequired(r, cred)
    \/ \E r \in ReqIds, root \in Roots : HandleAdd(r, root)
    \/ \E r \in ReqIds : HandleAddReturn(r)
    \/ IngestNext

PinNext ==
    \/ UploadNext
    \/ \E i \in 1..MaxPins : WorkerTake(i)
    \/ \E p \in PinIds : PinDone(p)
    \/ \E p \in PinIds : Unpin(p)

RpcNext ==
    \/ Dial
    \/ SupSleep
    \/ SendHello
    \/ ReadFail
    \/ WriteLoopExit
    \/ \E m \in Offered : WriteLoopTake(m)
    \/ WriteLoopSend
    \/ RunRpcReturn

TrackNext ==
    \/ \E c \in Chans : TrackChannel(c)
    \/ \E c \in Chans, status \in Statuses : TransferEvent(c, status)

ReportNext == ReporterGather \/ ReporterTick

CmdNext ==
    \/ \E c \in Commands : ReadCmd(c)
    \/ \E i \in 1..MaxCmds, failed \in BOOLEAN : HandlerReturn(i, failed)

Next ==
    Startup \/ Restart \/ PinNext \/ RpcNext \/ CmdNext \/ TrackNext \/ ReportNext

\* the whole program
Spec == Init /\ [][Next]_vars

\* the pin lifecycle: uploads, the pin queue, Unpin and restarts, with the RPC
\* session that takes their messages
PinSpec == Init /\ [][Startup \/ Restart \/ PinNext \/ RpcNext]_vars

\* the uploads of POST /content/add with the RPC session that takes PinComplete
UploadSpec == Init /\ [][Startup \/ UploadNext \/ RpcNext]_vars

\* the channel tracker with the RPC session that takes its messages
TrackerSpec == Init /\ [][Startup \/ TrackNext \/ RpcNext]_vars

\* the RPC session and its supervisor, with the update reporter as producer
RpcSpec == Init /\ [][Startup \/ RpcNext \/ ReportNext]_vars

\* the RPC session with the Commands it receives and their handlers, and the update
\* reporter as producer
CmdSpec == Init /\ [][Startup \/ RpcNext \/ CmdNext \/ ReportNext]_vars

\* the RPC session under the scheduling of the Go runtime: a sleeping supervisor
\* wakes up, and a returned runRpc is followed by the supervisor's next statement
RpcFairSpec == RpcSpec /\ WF_vars(SupSleep) /\ WF_vars(RunRpcReturn)

\* ------------------------------------------------------------------ claims
Flags == {"pinning", "active", "failed"}

FlagsSet(row) == {f \in Flags : row[f]}

\* C1: every Pin row, from its creation on and under every interleaving of uploads,
\* queue processing and status callbacks, has exactly one of pinning / active /
\* failed set; a Pin in a terminal state (active or failed) is not pinning and is
\* not both active and failed.
C1_ExactlyOneFlag ==
    \A p \in PinIds :
        Live(p) =>
            /\ Cardinality(FlagsSet(pins[p])) = 1
            /\ (pins[p].active \/ pins[p].failed) =>
                   ~pins[p].pinning /\ ~(pins[p].active /\ pins[p].failed)

\* a Pin that the queue has processed and the status callback has marked failed
C1_Witness ==
    \E p \in PinIds : Live(p) /\ pins[p].failed /\ task[p].kind = "none"

\* C2: once a Pin is active or failed, no step that keeps its row changes its
\* pinning / active / failed flags (only Unpin, which deletes the row, ends the state).
C2_TerminalAbsorbing ==
    [][\A p \in PinIds :
          (Live(p) /\ pins'[p].row = "live" /\ (pins[p].active \/ pins[p].failed)) =>
              /\ pins'[p].pinning = pins[p].pinning
              /\ pins'[p].active = pins[p].active
              /\ pins'[p].failed = pins[p].failed]_vars

RECURSIVE Collapse(_)
\* sq with every run of equal neighbours reduced to one element
Collapse(sq) ==
    IF Len(sq) <= 1 THEN sq
    ELSE IF sq[1] = sq[2] THEN Collapse(Tail(sq))
    ELSE <<sq[1]>> \o Collapse(Tail(sq))

\* C3 as stated: the number of TransferStatus messages emitted for a tracked channel
\* is the number of distinct status values among its events.
C3_OnePerDistinctStatus ==
    \A c \in Chans : Len(emitted[c]) = Cardinality(Range(events[c]))

\* C3 as amended: one TransferStatus is emitted for the first event and one for
\* every event whose status differs from that of the event before it, in that order.
C3_OnePerStatusChange ==
    \A c \in Chans : emitted[c] = Collapse(events[c])

\* the events A, B, A on a tracked channel, reported three times
C3_Witness ==
    \E c \in Chans :
        /\ trackingChannels[c].tracked
        /\ events[c] = <<"Requested", "Ongoing", "Requested">>
        /\ Len(emitted[c]) = 3

IsTransferStatus(m) == m.op = "TransferStatus"

\* the messages the write loop has received on this connection
Taken == Range(wire) \cup {inhand}

\* C4: the TransferStatus messages of a channel reach the write loop in the order in
\* which the tracker recorded their status changes: none is received while an earlier
\* one of the same channel still waits, and they stand on the wire in that order.
C4_InOrderOfChange ==
    /\ \A m \in Taken, w \in outgoing :
          (IsTransferStatus(m) /\ IsTransferStatus(w) /\ w.chan = m.chan) => m.seq < w.seq
    /\ \A i, j \in 1..Len(wire) :
          (i < j /\ IsTransferStatus(wire[i]) /\ IsTransferStatus(wire[j])
             /\ wire[i].chan = wire[j].chan) => wire[i].seq < wire[j].seq

OpsFor(q, cont) == {i \in 1..Len(q) : q[i].ContId = cont}

C6_HelloFirst ==
    /\ [](/\ wire # <<>> => wire[1] = HelloFrame
          /\ \A i \in 2..Len(wire) : wire[i] # HelloFrame
          /\ inhand # NoMsg => wire # <<>>
          /\ rpc = "hello" => reader = "none" /\ wire = <<>>)
    /\ [][(rpc = "hello" /\ rpc' = "err") =>
             /\ reader' = "none"
             /\ inhand' = NoMsg
             /\ wire' = <<>>
             /\ Offered' = Offered]_vars

\* a connection on which Hello and then a message of the outbound queue were written
C6_Witness ==
    /\ Len(wire) = 2
    /\ wire[1] = HelloFrame
    /\ wire[2].op = "ShuttleUpdate"

\* C7: no message that the write loop has received from the outbound queue is lost:
\* it is written, or still to be written.
C7_NoAcceptedMessageLost == dropped = NoMsg

\* C8: a failed write of an outbound message ends the session: after it the write
\* loop of that session receives no further message from the outbound queue.
C8_WriteErrorAborts == dropped # NoMsg => rpc # "send"

\* C9: RunRpcConnection never returns, and after every dial failure and every end of
\* a session it dials again.
C9_SupervisorRetries ==
    /\ [](sup \in {"init", "dial", "sleep10", "sleep1", "run"})
    /\ (sup \in {"sleep10", "sleep1"}) ~> (sup = "dial")
    /\ (rpc \in {"err", "nil"}) ~> (sup = "dial")

\* a session that was connected has ended and the supervisor has not yet dialled again
C9_Witness == rpc = "err" /\ wire # <<>> /\ sup = "run"

\* the Object rows that no ObjRef names
Unreferenced == {o \in 1..Len(objects) : ~\E r \in refs : r[2] = o}

\* C10: Unpin of an existing Pin completes normally, and then the Pin row and its
\* ObjRef rows are deleted and no Object row is left that no ObjRef names.
C10_UnpinReclaims ==
    /\ mainpc # "crashed"
    /\ \A p \in PinIds :
          pins[p].row = "deleted" =>
              (\A r \in refs : r[1] # p) /\ Unreferenced = {}

\* the request was let through by AuthRequired and by the storage-disabled check
Authorized(cred) ==
    cred.Token = "accepted" /\ cred.Perms >= PermLevelUser /\ ~cred.StorageDisabled

\* C11: a POST /content/add request allocates a staging store, creates a content at
\* the coordinator or creates a Pin row only if its token was accepted, the user's
\* level is at least the route's and storage is not disabled for the user; a rejected
\* token is answered with the authentication failure, too low a level with 401,
\* disabled storage with 400, and the step that answers so creates no Pin row.
C11_AuthGuardsUpload ==
    /\ [](\A r \in ReqIds :
            LET u == uploads[r] IN
            /\ u.pc \in {"handler", "ingest"} =>
                   u.cred.Token = "accepted" /\ u.cred.Perms >= PermLevelUser
            /\ (u.bs # "none" \/ u.created \/ u.pin # 0) => Authorized(u.cred)
            /\ u.pc = "done" =>
                   /\ u.cred.Token = "rejected" => u.resp = "autherr"
                   /\ (u.cred.Token = "accepted" /\ u.cred.Perms < PermLevelUser) =>
                          u.resp = "401"
                   /\ (u.cred.Token = "accepted" /\ u.cred.Perms >= PermLevelUser
                         /\ u.cred.StorageDisabled) => u.resp = "400")
    /\ [][\A r \in ReqIds :
             (uploads'[r] # uploads[r] /\ uploads'[r].resp \in {"autherr", "401", "400"}) =>
                 pins' = pins]_vars

\* a user with storage disabled was answered 400 and there is no Pin row
C11_Witness ==
    /\ \E r \in ReqIds : uploads[r].pc = "done" /\ uploads[r].resp = "400"
    /\ \A p \in PinIds : pins[p].row = "none"

\* C12: the CleanUp of the staging store of an upload is started once when the handler
\* returns, whatever it returns, and not while the handler or its ingestion runs; an
\* upload without a staging store starts none.
C12_CleanupOnEveryExit ==
    \A r \in ReqIds :
        LET u == uploads[r] IN
        /\ u.cleanups <= 1
        /\ u.bs = "none" => u.cleanups = 0
        /\ (u.pc = "done" /\ u.bs # "none") => u.cleanups = 1
        /\ u.cleanups = 1 =>
               u.pc = "done" /\ (u.pin # 0 => task[u.pin].kind # "add")

\* an upload whose Pin became active and whose handler still returned an error (the
\* ObjRef insert or the move out of the staging store failed), with its one CleanUp
C12_Witness ==
    \E r \in ReqIds :
        /\ uploads[r].pc = "done" /\ uploads[r].resp = "err"
        /\ uploads[r].pin # 0 /\ pins[uploads[r].pin].active
        /\ uploads[r].cleanups = 1

RECURSIVE ReachFrom(_, _)
\* the addresses reachable over links from the addresses of front, with those in seen
ReachFrom(front, seen) ==
    IF front = {} THEN seen
    ELSE LET c == CHOOSE x \in front : TRUE IN
         ReachFrom((front \ {c}) \cup (Range(Links(c)) \ (seen \cup front)),
                   seen \cup {c})

Reachable(root) == ReachFrom({root}, {})

RECURSIVE SumOf(_)
SumOf(S) ==
    IF S = {} THEN 0
    ELSE LET c == CHOOSE x \in S : TRUE IN NodeSize(c) + SumOf(S \ {c})

\* the walk of the ingestion has returned without error
Walked(t) == t.pc \in {"objects", "update", "refs"}

\* C13: whatever the interleaving of the concurrent fetches, a walk that returns
\* without error has recorded one Object per address reachable from the root and no
\* other, and a total size that is the sum of the sizes of these nodes.
C13_WalkRecordsEachOnce ==
    \A p \in PinIds :
        Walked(task[p]) =>
            /\ Len(task[p].cids) = Cardinality(Reachable(task[p].root))
            /\ Range(task[p].cids) = Reachable(task[p].root)
            /\ task[p].total = SumOf(Reachable(task[p].root))

\* C14: the update reporter submits no ShuttleUpdate message for a snapshot that
\* getUpdatePacket failed to gather: every ShuttleUpdate offered to the outbound
\* queue, received by the write loop or written carries a gathered snapshot.
C14_FailedSnapshotSkipped ==
    \A m \in Offered \cup Taken : m.op = "ShuttleUpdate" => m.arg # "nil"

\* C15: a Pin becomes active only by the ingestion run for an operation that a worker
\* of the pin queue has taken, and the upload that creates a Pin row enqueues an
\* operation for it.
C15_QueueOwnsTransitions ==
    [][\A p \in PinIds :
          /\ (pins'[p].active /\ ~pins[p].active) => task[p].kind = "pin"
          /\ (pins[p].row = "none" /\ pins'[p].row = "live") =>
                 OpsFor(pinQueue', pins'[p].content) # {}]_vars

\* the flags of a Pin that is being processed and has reached no terminal state
Untouched(row) == row.pinning /\ ~row.active /\ ~row.failed

\* C16: when the ingestion of a Pin has returned an error, or the upload handler has
\* returned an error after the Pin row was created (the move out of the staging store
\* failed), the Pin still has pinning = true, active = false, failed = false, until a
\* failed status is reported through onPinStatusUpdate.
C16_ErrorLeavesFlags ==
    /\ \A p \in PinIds :
          (task[p].pc = "err" /\ Live(p)) => Untouched(pins[p])
    /\ \A r \in ReqIds :
          LET u == uploads[r] IN
          (u.pc = "done" /\ u.resp = "err" /\ u.pin # 0 /\ Live(u.pin)) =>
              Untouched(pins[u.pin])

\* C17: an event of a channel that has no entry in the tracker map leaves the map as
\* it is, creates no entry and emits no TransferStatus message.
C17_UntrackedEventIgnored ==
    [][\A c \in Chans :
          ignored'[c] # ignored[c] =>
              /\ ~trackingChannels[c].tracked
              /\ trackingChannels' = trackingChannels
              /\ emitted' = emitted
              /\ outgoing' = outgoing]_vars

\* events arrived for a channel before it was tracked, and one after
C17_Witness ==
    \E c \in Chans : ignored[c] > 0 /\ trackingChannels[c].tracked /\ events[c] # <<>>

\* the frame writes in progress on the connection: the Hello of a session that has
\* not yet written it, and the message the write loop has received and not yet sent
WritesInProgress ==
    (IF rpc = "hello" THEN 1 ELSE 0) + (IF inhand # NoMsg THEN 1 ELSE 0)

\* C18: at most one frame write is in progress on the connection; a frame is written
\* only as the Hello of runRpc or as the message the write loop has in hand; and the
\* write loop receives a message only when it has none in hand, so that the messages
\* are written in the order in which they were received.
C18_OneWriteInFlight ==
    /\ [](WritesInProgress <= 1)
    /\ [][wire' # wire /\ wire' # <<>> =>
             \/ rpc = "hello" /\ wire = <<>> /\ wire' = <<HelloFrame>>
             \/ rpc = "send" /\ wire # <<>> /\ wire' = Append(wire, inhand)]_vars
    /\ [][(inhand' # inhand /\ inhand' # NoMsg) =>
             inhand = NoMsg /\ rpc = "loop" /\ wire # <<>>]_vars

\* a message is being written after Hello while the next one waits to be received
C18_Witness ==
    /\ rpc = "send"
    /\ wire = <<HelloFrame>>
    /\ inhand.op = "ShuttleUpdate"
    /\ Offered # {}

\* the addresses of the Objects that the ObjRef rows of Pin p name
Referenced(p) == {objects[r[2]] : r \in {x \in refs : x[1] = p}}

\* C19: in every state a Pin that is active has an ObjRef row for the Object of every
\* node of its graph: it is marked active only after these rows were inserted.
C19_ActiveAfterRefs ==
    \A p \in PinIds :
        (Live(p) /\ pins[p].active) => Reachable(pins[p].root) \subseteq Referenced(p)

\* C20: the Object table has at most one row per content address.
C20_ObjectsDeduplicated ==
    \A i, j \in 1..Len(objects) : objects[i] = objects[j] => i = j

\* C22: runRpc never returns a nil error: a session ends by a failed Hello or by the
\* exit of the read goroutine, both returned as errors, so RunRpcConnection never
\* takes its clean-exit branch and sleeps 10 seconds after every session.
C22_RunRpcAlwaysErrors ==
    /\ [](rpc # "nil" /\ sup # "sleep1")
    /\ [][(sup = "run" /\ sup' \notin {"run", "init"}) =>
             rpc = "err" /\ sup' = "sleep10"]_vars

\* a session that wrote Hello has ended by the exit of its read goroutine, and runRpc
\* has returned to the supervisor
C22_Witness ==
    /\ sup = "run"
    /\ rpc = "err"
    /\ conn = "closed"
    /\ wire # <<>>
    /\ reader = "none"

\* the Command that the goroutine h reads through its pointer
CmdOf(h) == cmdvars[h.cmd]

\* C21: every received Command is handled in a goroutine of its own that reads the
\* Command received for it, whatever is received later; while a handler runs the
\* read loop stays at Receive and can receive the next Command; and the return of a
\* handler, with an error or without, leaves the read loop and the session as they are.
C21_CommandsHandledConcurrently ==
    /\ [](\A i \in 1..Len(handlers) :
             handlers[i].pc = "running" => CmdOf(handlers[i]) = handlers[i].recv)
    /\ []((reader = "running" /\ Len(handlers) < MaxCmds) =>
             \A c \in Commands : ENABLED ReadCmd(c))
    /\ [][\A i \in 1..Len(handlers) :
             (i <= Len(handlers') /\ handlers'[i].pc # handlers[i].pc) =>
                 UNCHANGED <<reader, rpc, sup, conn, wire, inhand, dropped>>]_vars
    /\ [][Len(handlers') > Len(handlers) =>
             /\ reader = "running" /\ reader' = "running"
             /\ \A i \in 1..Len(handlers) : handlers'[i] = handlers[i]]_vars

\* the first handler is still running; a different Command was received after it and
\* its handler has returned an error; the read loop and the write loop go on
C21_Witness ==
    /\ Len(handlers) = 2
    /\ handlers[1].pc = "running"
    /\ handlers[2].pc = "err"
    /\ handlers[1].recv # handlers[2].recv
    /\ reader = "running"
    /\ rpc = "loop"

====
